---- MODULE Spec2Model ----
(***************************************************************************)
(* FROST key-generation fragment of freddo377: the local FrostSigner, its  *)
(* Schnorr proof of knowledge over a Fiat-Shamir transcript, the Horner    *)
(* evaluation of the signing polynomial and the FrostCommittee.            *)
(*                                                                         *)
(* decaf377 is a prime-order group.  It is modelled by the subgroup of     *)
(* order Q of the multiplicative group of integers modulo P, generated by  *)
(* the basepoint: an Element is a residue, Element addition is the product *)
(* of residues and scalar multiplication is exponentiation.  Fr is the     *)
(* field of integers modulo Q.                                             *)
(***************************************************************************)
EXTENDS Integers, Sequences, FiniteSets, TLC

VARIABLES
    signer,           \* the local FrostSigner (frost.rs:85-96)
    new_threshold,    \* the `threshold` argument FrostSigner::new was called with
    proof,            \* outcome of the last keygen_proof call on signer
    verdict,          \* outcome of the last keygen_verify_proof call on the signer's own proof
    verify_call,      \* a free-standing keygen_verify_proof call: arguments and verdict
    challenge_first,  \* the first keygen_challenge call: arguments and result
    challenge_last,   \* the latest keygen_challenge call: arguments and result
    challenge_calls,  \* number of keygen_challenge calls made so far
    committee,        \* the FrostCommittee (frost.rs:53-60)
    ret,              \* value returned by the last committee getter
    sk,               \* a SigningKey (signing_key.rs:9-11)
    vk,               \* the VerificationKey derived from sk
    eval_sk,          \* outcome of the last SigningKey::evaluate call
    eval_fs           \* outcome of the last FrostSigner::signing_key_evaluate call

vars == <<signer, new_threshold, proof, verdict, verify_call, challenge_first,
          challenge_last, challenge_calls, committee, ret, sk, vk, eval_sk, eval_fs>>

----------------------------------------------------------------------------
(* Bounds of the model *)

MaxId == 1
MaxThreshold == 2
MaxPoint == 3
MaxCalls == 3
MaxN == 2
MaxSigners == 2
MaxPeerScalar == 1
MaxChallengeScalar == 2

----------------------------------------------------------------------------
(* The group primitive (decaf377) *)

P == 23
Q == 11
basepoint == 2

RECURSIVE Pow(_, _, _)
Pow(b, e, m) == IF e = 0 THEN 1 % m ELSE (b * Pow(b, e - 1, m)) % m

Fr == 0 .. (Q - 1)
Fr_zero == 0
Fr_add(a, b) == (a + b) % Q
Fr_mul(a, b) == (a * b) % Q
Fr_from_u64(x) == x % Q

Element_zero == 1
Element_add(a, b) == (a * b) % P
ScalarMul(k, e) == Pow(e, k % Q, P)
Element_neg(a) == Pow(a, Q - 1, P)
Element_sub(a, b) == Element_add(a, Element_neg(b))
Elements == { ScalarMul(k, basepoint) : k \in Fr }

ElementLen == 2
ChallengeLen == 2
U64Len == 8

RECURSIVE LEBytes(_, _)
LEBytes(x, n) == IF n = 0 THEN <<>> ELSE <<x % 256>> \o LEBytes(x \div 256, n - 1)

RECURSIVE LEValue(_)
LEValue(bytes) ==
    IF Len(bytes) = 0 THEN 0 ELSE bytes[1] + 256 * LEValue(Tail(bytes))

vartime_compress(e) == LEBytes(e, ElementLen)
from_le_bytes_mod_order(bytes) == LEValue(bytes) % Q

----------------------------------------------------------------------------
(* The Fiat-Shamir transcript (merlin) *)

HashMod == 65521

LabelCode(label) ==
    CASE label = "dom-sep" -> 1
      [] label = "freddo377-key-gen" -> 2
      [] label = "signer-identifier" -> 3
      [] label = "constant-term-commitment" -> 4
      [] label = "nonce-commitment" -> 5
      [] label = "schnorr-sig-challenge" -> 6
      [] OTHER -> 0

Transcript_append_message(transcript, label, message) ==
    Append(transcript, [label |-> label, message |-> message])

Transcript_append_u64(transcript, label, x) ==
    Transcript_append_message(transcript, label, LEBytes(x, U64Len))

Transcript_new(label) ==
    Transcript_append_message(<<>>, "dom-sep", <<LabelCode(label)>>)

RECURSIVE AbsorbBytes(_, _)
AbsorbBytes(h, bytes) ==
    IF Len(bytes) = 0 THEN h
    ELSE AbsorbBytes((h * 31 + bytes[1] + 1) % HashMod, Tail(bytes))

RECURSIVE AbsorbTranscript(_, _)
AbsorbTranscript(h, transcript) ==
    IF Len(transcript) = 0 THEN h
    ELSE AbsorbTranscript(
            AbsorbBytes((h * 257 + LabelCode(transcript[1].label) * 17
                            + Len(transcript[1].message)) % HashMod,
                        transcript[1].message),
            Tail(transcript))

Transcript_challenge_bytes(transcript, label, n) ==
    LEBytes(AbsorbTranscript(7, Transcript_append_message(transcript, label,
                                                         LEBytes(n, 4))), n)

----------------------------------------------------------------------------
(* schnorr.rs *)

Signature_default == [commitment |-> Element_zero, challenge_response |-> Fr_zero]

----------------------------------------------------------------------------
(* lib.rs / participant.rs *)

\* ParticipantIndex::new: the assertion aborts on zero.
ParticipantIndex_new(x) ==
    IF x = 0 THEN [panicked |-> TRUE, value |-> 0]
    ELSE [panicked |-> FALSE, value |-> x]

----------------------------------------------------------------------------
(* signing_key.rs *)

\* The coefficient vectors an rng can produce for a given length.
RECURSIVE CoefficientVectors(_)
CoefficientVectors(n) ==
    IF n = 0 THEN { <<>> }
    ELSE { Append(v, c) : v \in CoefficientVectors(n - 1), c \in Fr }

to_public_signing_key(self) ==
    [coefficients |->
        [k \in 1 .. Len(self.coefficients) |->
            ScalarMul(self.coefficients[k], basepoint)]]

\* Horner's loop without the .rev(): the coefficients are taken lowest first.
RECURSIVE HornerForward(_, _, _, _)
HornerForward(coefficients, i, point, result) ==
    IF i = 0 THEN result
    ELSE HornerForward(coefficients, i - 1, point,
                       Fr_add(Fr_mul(result, point),
                              coefficients[Len(coefficients) - i + 1]))

\* The loop body of Horner's method, run over coefficients[1..i] in reverse.
RECURSIVE HornerRev(_, _, _, _)
HornerRev(coefficients, i, point, result) ==
    IF i = 0 THEN result
    ELSE HornerRev(coefficients, i - 1, point,
                   Fr_add(Fr_mul(result, point), coefficients[i]))

evaluate(self, point) ==
    HornerRev(self.coefficients, Len(self.coefficients), Fr_from_u64(point), Fr_zero)

----------------------------------------------------------------------------
(* frost.rs: FrostSigner *)

NoSigner == [live |-> FALSE, id |-> 0, signing_key |-> <<>>, nonce |-> 0,
             commitment |-> <<>>]

\* FrostSigner::new; rng is the stream of scalars the random generator yields:
\* `threshold` draws for the coefficients, then one for the nonce.
FrostSigner_new(id, _committee_size, threshold, rng) ==
    LET signing_key == [k \in 1 .. threshold |-> rng[k]]
        generator == basepoint
        commitment == [k \in 1 .. Len(signing_key) |-> ScalarMul(signing_key[k], generator)]
        nonce == rng[threshold + 1]
    IN  [live |-> TRUE,
         id |-> id,
         signing_key |-> signing_key,
         commitment |-> commitment,
         nonce |-> nonce]

FrostSigner_id(self) == self.id

public_commitment(self) == self.commitment

signing_key_evaluate(self, point) ==
    HornerRev(self.signing_key, Len(self.signing_key), Fr_from_u64(point), Fr_zero)

nonce_commitment(self) == ScalarMul(self.nonce, basepoint)

\* A transcript that is kept between calls instead of being created by each:
\* it has absorbed something for every earlier call.
keygen_transcript_kept(id, constant_term_commitment, nonce_commitment_) ==
    Transcript_append_message(
        Transcript_append_message(
            Transcript_append_u64(
                Transcript_append_u64(Transcript_new("freddo377-key-gen"),
                                      "schnorr-sig-challenge", challenge_calls),
                "signer-identifier", id),
            "constant-term-commitment", vartime_compress(constant_term_commitment)),
        "nonce-commitment", vartime_compress(nonce_commitment_))

keygen_transcript(id, constant_term_commitment, nonce_commitment_) ==
    Transcript_append_message(
        Transcript_append_message(
            Transcript_append_u64(Transcript_new("freddo377-key-gen"),
                                  "signer-identifier", id),
            "constant-term-commitment", vartime_compress(constant_term_commitment)),
        "nonce-commitment", vartime_compress(nonce_commitment_))

keygen_challenge(id, constant_term_commitment, nonce_commitment_) ==
    LET transcript == keygen_transcript(id, constant_term_commitment, nonce_commitment_)
        challenge_raw == Transcript_challenge_bytes(transcript, "schnorr-sig-challenge",
                                                    ChallengeLen)
    IN  [challenge |-> from_le_bytes_mod_order(challenge_raw),
         transcript |-> Transcript_append_message(transcript, "schnorr-sig-challenge",
                                                  LEBytes(ChallengeLen, 4))]

\* keygen_proof with the response computed as nonce - challenge * signing_key[0].
keygen_proof_minus(self) ==
    IF Len(self.commitment) = 0 \/ Len(self.signing_key) = 0
    THEN [panicked |-> TRUE, sig |-> Signature_default]
    ELSE LET nc == ScalarMul(self.nonce, basepoint)
             c == keygen_challenge(FrostSigner_id(self), self.commitment[1], nc)
         IN  [panicked |-> FALSE,
              sig |-> [commitment |-> nc,
                       challenge_response |->
                           Fr_add(self.nonce,
                                  Q - Fr_mul(c.challenge, self.signing_key[1]))]]

\* keygen_proof indexes commitment[0] and signing_key[0]: it aborts when they are empty.
keygen_proof(self) ==
    IF Len(self.commitment) = 0 \/ Len(self.signing_key) = 0
    THEN [panicked |-> TRUE, sig |-> Signature_default]
    ELSE LET nc == ScalarMul(self.nonce, basepoint)
             c == keygen_challenge(FrostSigner_id(self), self.commitment[1], nc)
         IN  [panicked |-> FALSE,
              sig |-> [commitment |-> nc,
                       challenge_response |->
                           Fr_add(self.nonce, Fr_mul(c.challenge, self.signing_key[1]))]]

keygen_verify_proof(id, constant_term_commitment, nonce_commitment_, sig) ==
    LET c == keygen_challenge(id, constant_term_commitment, nonce_commitment_)
        candidate_commitment ==
            Element_sub(ScalarMul(sig.challenge_response, basepoint),
                        ScalarMul(c.challenge, constant_term_commitment))
    IN  vartime_compress(candidate_commitment) = vartime_compress(sig.commitment)

----------------------------------------------------------------------------
(* frost.rs: PeerCommitment and FrostCommittee *)

PeerCommitment_default == [id |-> 0, commitment |-> <<>>, sig |-> Signature_default]

NoCommittee == [live |-> FALSE, n |-> 0, t |-> 0, signers |-> <<>>]

FrostCommittee_new(n, t) == [live |-> TRUE, n |-> n, t |-> t, signers |-> <<>>]

\* add_signer that overwrites the record of an id it already holds.
add_signer_overwrite(self, peer_commitment) ==
    IF \E i \in 1 .. Len(self.signers) : self.signers[i].id = peer_commitment.id
    THEN [self EXCEPT !.signers =
            [i \in 1 .. Len(self.signers) |->
                IF self.signers[i].id = peer_commitment.id THEN peer_commitment
                ELSE self.signers[i]]]
    ELSE [self EXCEPT !.signers = Append(self.signers, peer_commitment)]

add_signer(self, peer_commitment) ==
    [self EXCEPT !.signers = Append(self.signers, peer_commitment)]

threshold(self) == self.t

committee_size(self) == self.n

----------------------------------------------------------------------------
(* Inputs *)

Ids == 0 .. MaxId
Thresholds == 0 .. MaxThreshold
Points == 0 .. MaxPoint
Sizes == 0 .. MaxN
PeerScalars == 1 .. MaxPeerScalar
ChallengeElements == { ScalarMul(k, basepoint) : k \in 0 .. MaxChallengeScalar }

\* What the glue code hands to add_signer: the commitment and proof a peer
\* built with FrostSigner::new and keygen_proof, published as they are, under
\* another id or with another constant-term commitment, or a default record.
PublishedPeer(id, a0, k) ==
    LET s == FrostSigner_new(id, MaxN, 1, <<a0, k>>)
    IN  [id |-> FrostSigner_id(s), commitment |-> public_commitment(s),
         sig |-> keygen_proof(s).sig]

PeerInputs ==
    LET honest == { PublishedPeer(id, a0, k) : id \in Ids, a0 \in PeerScalars, k \in PeerScalars }
    IN  honest
        \cup { [p EXCEPT !.id = (p.id + 1) % (MaxId + 1)] : p \in honest }
        \cup { [p EXCEPT !.commitment[1] = Element_add(@, basepoint)] : p \in honest }
        \cup { PeerCommitment_default }

----------------------------------------------------------------------------
(* State *)

NoProof == [done |-> FALSE, panicked |-> FALSE, sig |-> Signature_default]
NoVerdict == [done |-> FALSE, ok |-> FALSE]
NoVerifyCall == [done |-> FALSE, ok |-> FALSE, id |-> 0, constant_term_commitment |-> Element_zero,
                 nonce_commitment |-> Element_zero, sig |-> Signature_default]
NoChallengeCall == [done |-> FALSE, id |-> 0, constant_term_commitment |-> Element_zero,
                    nonce_commitment |-> Element_zero, challenge |-> 0]
NoRet == [done |-> FALSE, value |-> 0]
NoKey == [coefficients |-> <<>>]
NoVk == [done |-> FALSE, coefficients |-> <<>>]
NoEval == [done |-> FALSE, point |-> 0, value |-> 0]

signerVars == <<signer, new_threshold, proof, verdict>>
verifyVars == <<verify_call>>
challengeVars == <<challenge_first, challenge_last, challenge_calls>>
committeeVars == <<committee, ret>>
polyVars == <<sk, vk, eval_sk, eval_fs>>

Idle ==
    /\ signer = NoSigner /\ new_threshold = 0 /\ proof = NoProof /\ verdict = NoVerdict
    /\ verify_call = NoVerifyCall
    /\ challenge_first = NoChallengeCall /\ challenge_last = NoChallengeCall
    /\ challenge_calls = 0
    /\ committee = NoCommittee /\ ret = NoRet
    /\ sk = NoKey /\ vk = NoVk /\ eval_sk = NoEval /\ eval_fs = NoEval

----------------------------------------------------------------------------
(* The local signer: construct, prove, verify the own proof (frost.rs:239-249) *)

Call_FrostSigner_new ==
    /\ ~signer.live
    /\ \E id \in Ids, th \in Thresholds :
         \E rng \in CoefficientVectors(th + 1) :
            /\ signer' = FrostSigner_new(id, MaxN, th, rng)
            /\ new_threshold' = th
    /\ UNCHANGED <<proof, verdict, verifyVars, challengeVars, committeeVars, polyVars>>

Call_keygen_proof ==
    /\ signer.live
    /\ ~proof.done
    /\ proof' = [done |-> TRUE, panicked |-> keygen_proof(signer).panicked,
                 sig |-> keygen_proof(signer).sig]
    /\ UNCHANGED <<signer, new_threshold, verdict, verifyVars, challengeVars,
                   committeeVars, polyVars>>

Call_keygen_verify_own_proof ==
    /\ proof.done
    /\ ~proof.panicked
    /\ ~verdict.done
    /\ verdict' = [done |-> TRUE,
                   ok |-> keygen_verify_proof(FrostSigner_id(signer), signer.commitment[1],
                                              nonce_commitment(signer), proof.sig)]
    /\ UNCHANGED <<signer, new_threshold, proof, verifyVars, challengeVars,
                   committeeVars, polyVars>>

NextSigner ==
    \/ Call_FrostSigner_new
    \/ Call_keygen_proof
    \/ Call_keygen_verify_own_proof

SpecSigner == Idle /\ [][NextSigner]_vars

----------------------------------------------------------------------------
(* A free-standing call of keygen_verify_proof on arguments of the caller's choice *)

InitVerify ==
    /\ verify_call \in
         { [done |-> FALSE, ok |-> FALSE, id |-> id, constant_term_commitment |-> c0,
            nonce_commitment |-> nc,
            sig |-> [commitment |-> r, challenge_response |-> z]] :
              id \in Ids, c0 \in Elements, nc \in Elements, r \in Elements, z \in Fr }
    /\ signer = NoSigner /\ new_threshold = 0 /\ proof = NoProof /\ verdict = NoVerdict
    /\ challenge_first = NoChallengeCall /\ challenge_last = NoChallengeCall
    /\ challenge_calls = 0
    /\ committee = NoCommittee /\ ret = NoRet
    /\ sk = NoKey /\ vk = NoVk /\ eval_sk = NoEval /\ eval_fs = NoEval

Call_keygen_verify_proof ==
    /\ ~verify_call.done
    /\ verify_call' =
         [verify_call EXCEPT
            !.done = TRUE,
            !.ok = keygen_verify_proof(verify_call.id, verify_call.constant_term_commitment,
                                       verify_call.nonce_commitment, verify_call.sig)]
    /\ UNCHANGED <<signerVars, challengeVars, committeeVars, polyVars>>

NextVerify == Call_keygen_verify_proof

SpecVerify == InitVerify /\ [][NextVerify]_vars

----------------------------------------------------------------------------
(* Repeated calls of keygen_challenge (frost.rs:251-269) *)

Call_keygen_challenge ==
    /\ challenge_calls < MaxCalls
    /\ \E id \in Ids, c0 \in ChallengeElements, nc \in ChallengeElements :
         LET call == [done |-> TRUE, id |-> id, constant_term_commitment |-> c0,
                      nonce_commitment |-> nc,
                      challenge |-> keygen_challenge(id, c0, nc).challenge]
         IN  /\ challenge_first' = IF challenge_calls = 0 THEN call ELSE challenge_first
             /\ challenge_last' = call
    /\ challenge_calls' = challenge_calls + 1
    /\ UNCHANGED <<signerVars, verifyVars, committeeVars, polyVars>>

NextChallenge == Call_keygen_challenge

SpecChallenge == Idle /\ [][NextChallenge]_vars

----------------------------------------------------------------------------
(* The committee *)

Call_FrostCommittee_new ==
    /\ ~committee.live
    /\ \E n \in Sizes, t \in Sizes : committee' = FrostCommittee_new(n, t)
    /\ UNCHANGED <<ret, signerVars, verifyVars, challengeVars, polyVars>>

Call_add_signer ==
    /\ committee.live
    /\ Len(committee.signers) < MaxSigners
    /\ \E peer_commitment \in PeerInputs :
         committee' = add_signer(committee, peer_commitment)
    /\ UNCHANGED <<ret, signerVars, verifyVars, challengeVars, polyVars>>

Call_threshold ==
    /\ committee.live
    /\ ret' = [done |-> TRUE, value |-> threshold(committee)]
    /\ UNCHANGED <<committee, signerVars, verifyVars, challengeVars, polyVars>>

Call_committee_size ==
    /\ committee.live
    /\ ret' = [done |-> TRUE, value |-> committee_size(committee)]
    /\ UNCHANGED <<committee, signerVars, verifyVars, challengeVars, polyVars>>

NextCommittee ==
    \/ Call_FrostCommittee_new
    \/ Call_add_signer
    \/ Call_threshold
    \/ Call_committee_size

SpecCommittee == Idle /\ [][NextCommittee]_vars

----------------------------------------------------------------------------
(* Polynomial evaluation and commitment, on a SigningKey and on a FrostSigner *)
(* holding the same coefficients                                             *)

InitPoly ==
    /\ \E th \in Thresholds :
         \E coefficients \in CoefficientVectors(th) :
            /\ sk = [coefficients |-> coefficients]
            /\ signer = FrostSigner_new(1, MaxN, th, Append(coefficients, 1))
            /\ new_threshold = th
    /\ vk = NoVk /\ eval_sk = NoEval /\ eval_fs = NoEval
    /\ proof = NoProof /\ verdict = NoVerdict
    /\ verify_call = NoVerifyCall
    /\ challenge_first = NoChallengeCall /\ challenge_last = NoChallengeCall
    /\ challenge_calls = 0
    /\ committee = NoCommittee /\ ret = NoRet

Call_to_public_signing_key ==
    /\ ~vk.done
    /\ vk' = [done |-> TRUE, coefficients |-> to_public_signing_key(sk).coefficients]
    /\ UNCHANGED <<sk, eval_sk, eval_fs, signerVars, verifyVars, challengeVars, committeeVars>>

Call_evaluate ==
    /\ \E point \in Points :
         eval_sk' = [done |-> TRUE, point |-> point, value |-> evaluate(sk, point)]
    /\ UNCHANGED <<sk, vk, eval_fs, signerVars, verifyVars, challengeVars, committeeVars>>

Call_signing_key_evaluate ==
    /\ \E point \in Points :
         eval_fs' = [done |-> TRUE, point |-> point,
                     value |-> signing_key_evaluate(signer, point)]
    /\ UNCHANGED <<sk, vk, eval_sk, signerVars, verifyVars, challengeVars, committeeVars>>

NextPoly ==
    \/ Call_to_public_signing_key
    \/ Call_evaluate
    \/ Call_signing_key_evaluate

SpecPoly == InitPoly /\ [][NextPoly]_vars

----------------------------------------------------------------------------
(* Properties *)

IsPrefix(a, b) == Len(a) <= Len(b) /\ \A i \in 1 .. Len(a) : a[i] = b[i]

\* Sum over k of (j^k * C[k]), in the group.
RECURSIVE FeldmanSum(_, _, _)
FeldmanSum(C, j, k) ==
    IF k = 0 THEN Element_zero
    ELSE Element_add(FeldmanSum(C, j, k - 1),
                     ScalarMul(Pow(Fr_from_u64(j), k - 1, Q), C[k]))

\* The verification equation of the Schnorr proof, with the challenge
\* recomputed from id, C_0 and the proof's own nonce commitment R.
SchnorrEquation(id, c0, sig) ==
    ScalarMul(sig.challenge_response, basepoint)
        = Element_add(sig.commitment,
                      ScalarMul(keygen_challenge(id, c0, sig.commitment).challenge, c0))

\* A committee record whose proof verifies for its own id and commitment[0].
RecordVerifies(pc) ==
    /\ Len(pc.commitment) >= 1
    /\ keygen_verify_proof(pc.id, pc.commitment[1], pc.sig.commitment, pc.sig)

\* C1: the proof keygen_proof returns for a signer built by FrostSigner::new
\* with threshold >= 1 is accepted by keygen_verify_proof called with the
\* signer's id, commitment[0] and nonce commitment.
C1_ProofCompleteness ==
    (signer.live /\ new_threshold >= 1 /\ verdict.done) => verdict.ok

C1_Witness ==
    /\ verdict.done /\ verdict.ok
    /\ new_threshold >= 2
    /\ signer.id # 0
    /\ signer.signing_key[1] > 1
    /\ signer.nonce > 1
    /\ proof.sig.challenge_response # signer.nonce

\* C2: keygen_verify_proof accepts exactly when z*G = R + e*C_0 with e the
\* challenge recomputed from id, C_0 and the proof's own nonce commitment R,
\* so the verdict is determined by (id, C_0, R, z) alone.
C2_VerdictFromProofAlone ==
    verify_call.done =>
        (verify_call.ok <=>
            SchnorrEquation(verify_call.id, verify_call.constant_term_commitment,
                            verify_call.sig))

C4_RogueKeyRejected ==
    \A i \in 1 .. Len(committee.signers) : RecordVerifies(committee.signers[i])

\* C5: no two records in the committee's signer set have the same id: a
\* PeerCommitment whose id the committee already holds is not added.
C5_UniqueIds ==
    \A i, j \in 1 .. Len(committee.signers) :
        committee.signers[i].id = committee.signers[j].id => i = j

\* C6: a committee exists only with parameters 1 <= t <= n.
C6_ValidParameters ==
    committee.live => (1 <= committee.t /\ committee.t <= committee.n)

\* C7: the Horner evaluation of the coefficients at j, times G, equals the sum
\* over k of j^k * C[k] for the commitment C[k] = a_k*G, and the evaluation
\* at 0 is a_0; for SigningKey::evaluate and FrostSigner::signing_key_evaluate.
C7_FeldmanConsistency ==
    /\ (eval_sk.done /\ vk.done) =>
          ScalarMul(eval_sk.value, basepoint)
              = FeldmanSum(vk.coefficients, eval_sk.point, Len(vk.coefficients))
    /\ eval_fs.done =>
          ScalarMul(eval_fs.value, basepoint)
              = FeldmanSum(signer.commitment, eval_fs.point, Len(signer.commitment))
    /\ (eval_sk.done /\ eval_sk.point = 0 /\ Len(sk.coefficients) >= 1) =>
          eval_sk.value = sk.coefficients[1]
    /\ (eval_fs.done /\ eval_fs.point = 0 /\ Len(signer.signing_key) >= 1) =>
          eval_fs.value = signer.signing_key[1]

C7_Witness ==
    /\ eval_sk.done /\ vk.done /\ eval_fs.done
    /\ Len(sk.coefficients) >= 2
    /\ sk.coefficients[1] # 0 /\ sk.coefficients[2] > 1
    /\ eval_sk.point >= 2 /\ eval_fs.point >= 2
    /\ eval_sk.value # sk.coefficients[1]

\* C8: no FrostSigner and no committee record carries id 0.
C8_NonZeroId ==
    /\ signer.live => FrostSigner_id(signer) # 0
    /\ \A i \in 1 .. Len(committee.signers) : committee.signers[i].id # 0

\* C9: a committee operation never removes or replaces an admitted peer and
\* never changes n or t.
C9_MonotonicPeerSet ==
    [][committee.live =>
          /\ committee'.live
          /\ committee'.n = committee.n
          /\ committee'.t = committee.t
          /\ IsPrefix(committee.signers, committee'.signers)]_vars

C9_Witness ==
    /\ committee.live
    /\ Len(committee.signers) >= 2
    /\ committee.signers[1].id = committee.signers[2].id
    /\ committee.signers[1] # committee.signers[2]
    /\ ret.done

\* C10: every signer FrostSigner::new returns has exactly `threshold` entries
\* in signing_key and in commitment, with commitment[k] = signing_key[k]*G,
\* and keygen_proof returns a proof for it without aborting.
C10_ProofDefined ==
    signer.live =>
        /\ Len(signer.signing_key) = new_threshold
        /\ Len(signer.commitment) = new_threshold
        /\ \A k \in 1 .. new_threshold :
              signer.commitment[k] = ScalarMul(signer.signing_key[k], basepoint)
        /\ proof.done => ~proof.panicked

====
